---- MODULE Spec2Model ----
(***************************************************************************)
(* Model of src/mimic_utils/transpile.py: transpile_query (parse, catalog  *)
(* normalization over Table nodes, replacement of Anonymous function nodes *)
(* by typed nodes, render), transpile_file and transpile_folder.           *)
(*                                                                         *)
(* Python strings are sequences of one-character strings, so startswith    *)
(* and replace are computed as Python computes them.  The parsed tree is   *)
(* an arena: `nodes` holds the function-call part of the tree (ids are     *)
(* positions in the sequence, argument lists live in `lists` so that two   *)
(* nodes can hold the same Python list object) and `tables` holds the      *)
(* Table nodes in the order find_all yields them.                          *)
(***************************************************************************)
EXTENDS Naturals, Sequences, FiniteSets

\* ------------------------------------------------------------------------
\* Bounds of the model
\* ------------------------------------------------------------------------
MaxPieces == 3    \* a table name is a concatenation of 1..MaxPieces pieces
MaxNodes == 3     \* function-call part of a parsed tree has 1..MaxNodes nodes
MaxFiles == 2     \* directory entries under the source folder

\* ------------------------------------------------------------------------
\* Python strings
\* ------------------------------------------------------------------------
catalog_to_remove == <<"p","h","y","s","i","o","n","e","t","-","d","a","t","a">>

Dot == <<".">>

StartsWith(s, prefix) ==
    /\ Len(prefix) <= Len(s)
    /\ SubSeq(s, 1, Len(prefix)) = prefix

\* str.replace(old, ''): every non-overlapping occurrence, left to right
RECURSIVE Replace(_, _)
Replace(s, old) ==
    IF s = <<>> THEN <<>>
    ELSE IF StartsWith(s, old) THEN Replace(SubSeq(s, Len(old) + 1, Len(s)), old)
    ELSE <<Head(s)>> \o Replace(Tail(s), old)

\* ------------------------------------------------------------------------
\* Table nodes.  An optional component is a sequence of at most one
\* Identifier; an Identifier is [this, quoted].
\* ------------------------------------------------------------------------
Identifier(name, quoted) == [this |-> name, quoted |-> quoted]

\* sqlglot.expressions.to_identifier(name=<str>, quoted=<bool>)
to_identifier(name, quoted) == Identifier(name, quoted)

\* Expression.text(key): '' for an absent component, else the identifier text
Text(component) == IF component = <<>> THEN <<>> ELSE component[1].this

\* the catalog is "cleared" through an attribute that is not the node's arg
NormalizeTable_CatalogKept(table) ==
    IF Text(table.catalog) = catalog_to_remove
    THEN table
    ELSE IF StartsWith(table.this.this, catalog_to_remove)
    THEN [table EXCEPT !.this =
             to_identifier(Replace(table.this.this, catalog_to_remove \o Dot), FALSE)]
    ELSE table

\* `if` in place of `elif`: the name is rewritten after the catalog is cleared
NormalizeTable_BothBranches(table) ==
    LET cleared == IF Text(table.catalog) = catalog_to_remove
                   THEN [table EXCEPT !.catalog = <<>>]
                   ELSE table
    IN  IF StartsWith(table.this.this, catalog_to_remove)
        THEN [cleared EXCEPT !.this =
                 to_identifier(Replace(table.this.this, catalog_to_remove \o Dot), FALSE)]
        ELSE cleared

\* quoted=not table.this.quoted in place of quoted=False
NormalizeTable_QuotingFlipped(table) ==
    IF Text(table.catalog) = catalog_to_remove
    THEN [table EXCEPT !.catalog = <<>>]
    ELSE IF StartsWith(table.this.this, catalog_to_remove)
    THEN [table EXCEPT !.this =
             to_identifier(Replace(table.this.this, catalog_to_remove \o Dot),
                           ~table.this.quoted)]
    ELSE table

NormalizeTable(table) ==
    IF Text(table.catalog) = catalog_to_remove
    THEN [table EXCEPT !.catalog = <<>>]
    ELSE IF StartsWith(table.this.this, catalog_to_remove)
    THEN [table EXCEPT !.this =
             to_identifier(Replace(table.this.this, catalog_to_remove \o Dot), FALSE)]
    ELSE table

\* for table in sql_parsed.find_all(exp.Table): ...
NormalizeTables(tables) == [i \in DOMAIN tables |-> NormalizeTable(tables[i])]

\* ------------------------------------------------------------------------
\* Function-call part of the tree.  A node is
\*   [kind, this, expressions, parent]
\* where `this` is the callee name, `expressions` the id of the node's
\* argument list in `lists` and `parent` the id of the parent node (0: None).
\* A tree state is [nodes, lists]; sql_parsed is node 1.
\* ------------------------------------------------------------------------
Root == 1

Range(seq) == {seq[i] : i \in DOMAIN seq}

\* the callee name is compared without regard to case
TypedKind_IgnoreCase(name) ==
    IF name \in {"DATETIME", "datetime"} THEN "DateTime"
    ELSE IF name \in {"GENERATE_ARRAY", "generate_array"} THEN "GenerateArray"
    ELSE ""

\* the typed class the loop constructs for a callee name ("" : none)
TypedKind(name) ==
    IF name = "DATETIME" THEN "DateTime"
    ELSE IF name = "GENERATE_ARRAY" THEN "GenerateArray"
    ELSE ""

\* named_function = DateTime(**anon_function.args); anon_function.replace(named_function)
\* The constructor keeps every arg value (the argument list is the same list
\* object) and makes itself the parent of the argument nodes.  replace() does
\* nothing for a node without parent; otherwise it puts the new node in the
\* parent's argument list, either by assigning the parent a rebuilt list or
\* by writing into the list in place (in_place), depending on the library
\* release.
ReplaceAnon(st, item, in_place) ==
    LET a == st.nodes[item]
        new == Len(st.nodes) + 1
        named == [kind |-> TypedKind(a.this), this |-> a.this,
                  expressions |-> a.expressions, parent |-> 0]
        kids == Range(st.lists[a.expressions])
        nodes1 == Append([i \in DOMAIN st.nodes |->
                            IF i \in kids THEN [st.nodes[i] EXCEPT !.parent = new]
                            ELSE st.nodes[i]], named)
    IN  IF a.parent = 0
        THEN [nodes |-> nodes1, lists |-> st.lists]
        ELSE LET p == a.parent
                 l == nodes1[p].expressions
                 newlist == [j \in DOMAIN st.lists[l] |->
                               IF st.lists[l][j] = item THEN new ELSE st.lists[l][j]]
                 nodes2 == [nodes1 EXCEPT ![item].parent = 0, ![new].parent = p]
             IN  IF in_place
                 THEN [nodes |-> nodes2, lists |-> [st.lists EXCEPT ![l] = newlist]]
                 ELSE [nodes |-> [nodes2 EXCEPT ![p].expressions = Len(st.lists) + 1],
                       lists |-> Append(st.lists, newlist)]

\* the callee names for which one of the two branches of the loop body runs
IsKey(name) == TypedKind(name) # ""

\* for anon_function in sql_parsed.find_all(exp.Anonymous): the breadth-first
\* generator yields the head of its queue, the loop body runs, and only then
\* the generator appends the yielded node's own argument nodes to the queue.
RECURSIVE ResolveLoop(_, _, _)
ResolveLoop(queue, st, in_place) ==
    IF queue = <<>> THEN st
    ELSE LET item == Head(queue)
             n == st.nodes[item]
             st1 == IF n.kind = "Anonymous" /\ IsKey(n.this)
                    THEN ReplaceAnon(st, item, in_place)
                    ELSE st
         IN  ResolveLoop(Tail(queue) \o st1.lists[st1.nodes[item].expressions],
                         st1, in_place)

ResolveFunctions(st, in_place) == ResolveLoop(<<Root>>, st, in_place)

\* the nodes reachable from sql_parsed through the argument lists
RECURSIVE ReachFrom(_, _, _)
ReachFrom(st, frontier, seen) ==
    IF frontier = {} THEN seen
    ELSE LET next == UNION {Range(st.lists[st.nodes[i].expressions]) : i \in frontier}
         IN  ReachFrom(st, next \ (seen \cup frontier), seen \cup frontier)

Reachable(st) == IF st.nodes = <<>> THEN {} ELSE ReachFrom(st, {Root}, {})

\* ------------------------------------------------------------------------
\* Rendering (sql_parsed.sql(dialect=..., pretty=True)), as far as the model
\* needs it: every Table as catalog.db.name with quoted identifiers in double
\* quotes, and the function-call part in prefix order.
\* ------------------------------------------------------------------------
RenderIdentifier(id) ==
    IF id.quoted THEN <<"\"">> \o id.this \o <<"\"">> ELSE id.this

RenderComponent(component) ==
    IF component = <<>> THEN <<>> ELSE RenderIdentifier(component[1]) \o Dot

RenderTable(table) ==
    RenderComponent(table.catalog) \o RenderComponent(table.db)
        \o RenderIdentifier(table.this)

RECURSIVE RenderNodes(_, _)
RenderNodes(st, stack) ==
    IF stack = <<>> THEN <<>>
    ELSE LET n == st.nodes[Head(stack)]
         IN  <<[kind |-> n.kind, this |-> n.this,
                arity |-> Len(st.lists[n.expressions])]>>
             \o RenderNodes(st, st.lists[n.expressions] \o Tail(stack))

Render(tree) ==
    [tables |-> [i \in DOMAIN tree.tables |-> RenderTable(tree.tables[i])],
     calls |-> RenderNodes(tree, <<Root>>)]

\* ------------------------------------------------------------------------
\* Paths.  A path is [dir, stem, ext]; dir is the sequence of directory names.
\* ------------------------------------------------------------------------
SourceFolder == <<"queries">>
DestinationFolder == <<"out">>

\* filename.relative_to(source_folder)
RelativeTo(path, folder) ==
    [path EXCEPT !.dir = SubSeq(path.dir, Len(folder) + 1, Len(path.dir))]

\* Path(destination_folder).resolve() / filename.relative_to(source_folder)
DestinationFile(filename) ==
    LET rel == RelativeTo(filename, SourceFolder)
    IN  [rel EXCEPT !.dir = DestinationFolder \o rel.dir]

\* destination_file.parent.mkdir(parents=True, exist_ok=True)
Mkdir(dirs, dir) == dirs \cup {SubSeq(dir, 1, k) : k \in 1..Len(dir)}

\* source_folder.rglob("*.sql"): the entries whose name ends in .sql, in the
\* order the directory walk delivers them
Rglob(entries) == SelectSeq(entries, LAMBDA e : e.path.ext = "sql")

\* the text transpile_file writes: header with the file stem, then the query
FileText(source_file, text) == [stem |-> source_file.stem, query |-> text]

\* ------------------------------------------------------------------------
\* State
\* ------------------------------------------------------------------------
VARIABLES
    source_entries,    \* files under source_folder: <<[path, query]>> in walk order
    source_dialect,
    idx,               \* transpile_folder: number of files taken from rglob
    pc,                \* "folder", "read", "parsed", "normalized", "resolved",
                       \* "returned", "raised", "done"
    sql_query,         \* transpile_file: the text read (the tree it parses to)
    sql_parsed,        \* transpile_query: the tree, [tables, nodes, lists]
    transpiled_query,  \* transpile_query's result: <<>> or <<text>>
    dest_files,        \* files under destination_folder: path -> text, as a set
    dest_dirs          \* directories that exist under destination_folder

vars == <<source_entries, source_dialect, idx, pc, sql_query, sql_parsed,
          transpiled_query, dest_files, dest_dirs>>

NoTree == [tables |-> <<>>, nodes |-> <<>>, lists |-> <<>>]

\* a text sqlglot.parse_one rejects
Malformed == [ok |-> FALSE, tree |-> NoTree]

Query(tables, fn) ==
    [ok |-> TRUE, tree |-> [tables |-> tables, nodes |-> fn.nodes, lists |-> fn.lists]]

Dialects == {"bigquery", "postgres"}

files == Rglob(source_entries)

\* ------------------------------------------------------------------------
\* Actions
\* ------------------------------------------------------------------------
\* transpile_file opens the destination for writing before it transpiles
NextFile_DestinationOpenedFirst ==
    /\ pc = "folder"
    /\ idx < Len(files)
    /\ idx' = idx + 1
    /\ dest_dirs' = Mkdir(dest_dirs, DestinationFile(files[idx + 1].path).dir)
    /\ dest_files' = {f \in dest_files : f.path # DestinationFile(files[idx + 1].path)}
          \cup {[path |-> DestinationFile(files[idx + 1].path),
                 text |-> FileText(files[idx + 1].path, <<>>)]}
    /\ sql_query' = files[idx + 1].query
    /\ sql_parsed' = NoTree
    /\ transpiled_query' = <<>>
    /\ pc' = "read"
    /\ UNCHANGED <<source_entries, source_dialect>>

\* transpile_folder: next file of the rglob, mkdir, then transpile_file opens
\* and reads the source file
NextFile ==
    /\ pc = "folder"
    /\ idx < Len(files)
    /\ idx' = idx + 1
    /\ dest_dirs' = Mkdir(dest_dirs, DestinationFile(files[idx + 1].path).dir)
    /\ sql_query' = files[idx + 1].query
    /\ sql_parsed' = NoTree
    /\ transpiled_query' = <<>>
    /\ pc' = "read"
    /\ UNCHANGED <<source_entries, source_dialect, dest_files>>

\* sqlglot.parse_one succeeds
Parse ==
    /\ pc = "read"
    /\ sql_query.ok
    /\ sql_parsed' = sql_query.tree
    /\ pc' = "parsed"
    /\ UNCHANGED <<source_entries, source_dialect, idx, sql_query,
                   transpiled_query, dest_files, dest_dirs>>

\* sqlglot.parse_one raises ParseError: nothing catches it in transpile_query,
\* transpile_file or transpile_folder
ParseFail ==
    /\ pc = "read"
    /\ ~sql_query.ok
    /\ pc' = "raised"
    /\ UNCHANGED <<source_entries, source_dialect, idx, sql_query, sql_parsed,
                   transpiled_query, dest_files, dest_dirs>>

\* the loop over find_all(exp.Table)
Normalize ==
    /\ pc = "parsed"
    /\ sql_parsed' = [sql_parsed EXCEPT !.tables = NormalizeTables(sql_parsed.tables)]
    /\ pc' = "normalized"
    /\ UNCHANGED <<source_entries, source_dialect, idx, sql_query,
                   transpiled_query, dest_files, dest_dirs>>

\* if source_dialect == 'bigquery': the loop over find_all(exp.Anonymous)
Resolve ==
    /\ pc = "normalized"
    /\ source_dialect = "bigquery"
    /\ \E in_place \in BOOLEAN :
          LET st == ResolveFunctions([nodes |-> sql_parsed.nodes,
                                      lists |-> sql_parsed.lists], in_place)
          IN  sql_parsed' = [sql_parsed EXCEPT !.nodes = st.nodes, !.lists = st.lists]
    /\ pc' = "resolved"
    /\ UNCHANGED <<source_entries, source_dialect, idx, sql_query,
                   transpiled_query, dest_files, dest_dirs>>

SkipResolve ==
    /\ pc = "normalized"
    /\ source_dialect # "bigquery"
    /\ pc' = "resolved"
    /\ UNCHANGED <<source_entries, source_dialect, idx, sql_query, sql_parsed,
                   transpiled_query, dest_files, dest_dirs>>

\* transpiled_query = sql_parsed.sql(...); return transpiled_query
RenderQuery ==
    /\ pc = "resolved"
    /\ transpiled_query' = <<Render(sql_parsed)>>
    /\ pc' = "returned"
    /\ UNCHANGED <<source_entries, source_dialect, idx, sql_query, sql_parsed,
                   dest_files, dest_dirs>>

\* transpile_file: open(destination_file, "w") and write
WriteFile ==
    /\ pc = "returned"
    /\ LET source_file == files[idx].path
           destination_file == DestinationFile(source_file)
       IN  dest_files' = {f \in dest_files : f.path # destination_file}
              \cup {[path |-> destination_file,
                     text |-> FileText(source_file, transpiled_query[1])]}
    /\ pc' = "folder"
    /\ UNCHANGED <<source_entries, source_dialect, idx, sql_query, sql_parsed,
                   transpiled_query, dest_dirs>>

\* the rglob is exhausted: transpile_folder returns
Finish ==
    /\ pc = "folder"
    /\ idx = Len(files)
    /\ pc' = "done"
    /\ UNCHANGED <<source_entries, source_dialect, idx, sql_query, sql_parsed,
                   transpiled_query, dest_files, dest_dirs>>

Next ==
    \/ NextFile
    \/ Parse
    \/ ParseFail
    \/ Normalize
    \/ Resolve
    \/ SkipResolve
    \/ RenderQuery
    \/ WriteFile
    \/ Finish

\* ------------------------------------------------------------------------
\* Inputs
\* ------------------------------------------------------------------------
\* table names: the marker, the marker with its dot, a dot and a letter,
\* concatenated ('physionet-data.s', 'physionet-datas', 's.physionet-data.' ...)
Pieces == {catalog_to_remove, catalog_to_remove \o Dot, Dot, <<"s">>}

RECURSIVE Concats(_)
Concats(k) ==
    IF k = 0 THEN {<<>>}
    ELSE {p \o r : p \in Pieces, r \in Concats(k - 1)}

Names == UNION {Concats(k) : k \in 1..MaxPieces}

Catalogs == {<<>>,
             <<Identifier(catalog_to_remove, TRUE)>>,
             <<Identifier(<<"s">> \o catalog_to_remove, TRUE)>>,
             <<Identifier(catalog_to_remove \o <<"2">>, FALSE)>>}

Schemas == {<<>>, <<Identifier(<<"m","i","m","i","c">>, FALSE)>>}

TableNodes ==
    {[catalog |-> c, db |-> d, this |-> Identifier(n, q)] :
        c \in Catalogs, d \in Schemas, n \in Names, q \in BOOLEAN}

\* a second Table of the statement (FROM a JOIN b)
JoinedTables ==
    {[catalog |-> <<Identifier(catalog_to_remove, FALSE)>>,
      db |-> <<Identifier(<<"m","i","m","i","c">>, FALSE)>>,
      this |-> Identifier(<<"s">>, FALSE)],
     [catalog |-> <<>>, db |-> <<>>,
      this |-> Identifier(catalog_to_remove \o Dot \o <<"s">>, TRUE)]}

TableLists ==
    {<<t>> : t \in TableNodes} \cup {<<t, j>> : t \in TableNodes, j \in JoinedTables}

\* function-call part: node 1 is the root, node i > 1 is an argument of an
\* earlier node, argument lists in id order
AnonymousNames == {"DATETIME", "GENERATE_ARRAY", "datetime", "COALESCE"}

RootLabels ==
    {[kind |-> "Select", this |-> ""]}
        \cup {[kind |-> "Anonymous", this |-> n] : n \in AnonymousNames}

ArgLabels ==
    {[kind |-> "Column", this |-> "col"]}
        \cup {[kind |-> "Anonymous", this |-> n] : n \in AnonymousNames}

RECURSIVE SortedSeq(_)
SortedSeq(S) ==
    IF S = {} THEN <<>>
    ELSE LET m == CHOOSE x \in S : \A y \in S : x <= y
         IN  <<m>> \o SortedSeq(S \ {m})

BuildTree(n, par, lab) ==
    [nodes |-> [i \in 1..n |->
                  [kind |-> lab[i].kind, this |-> lab[i].this,
                   expressions |-> i, parent |-> par[i]]],
     lists |-> [i \in 1..n |-> SortedSeq({j \in 1..n : par[j] = i})]]

FunctionTrees ==
    UNION {
      {BuildTree(n, par, lab) :
          par \in {f \in [1..n -> 0..n] :
                     /\ f[1] = 0
                     /\ \A i \in 2..n : f[i] >= 1 /\ f[i] < i},
          lab \in {g \in [1..n -> RootLabels \cup ArgLabels] :
                     /\ g[1] \in RootLabels
                     /\ \A i \in 2..n : g[i] \in ArgLabels}}
      : n \in 1..MaxNodes}

\* a Column has no arguments
WellFormed(fn) ==
    \A i \in DOMAIN fn.nodes :
        fn.nodes[i].kind = "Column" => fn.lists[fn.nodes[i].expressions] = <<>>

\* SELECT DATETIME(col) ...
SmallFunctionTree ==
    BuildTree(3, <<0, 1, 2>>,
              <<[kind |-> "Select", this |-> ""],
                [kind |-> "Anonymous", this |-> "DATETIME"],
                [kind |-> "Column", this |-> "col"]>>)

SmallTables == <<[catalog |-> <<Identifier(catalog_to_remove, FALSE)>>,
                  db |-> <<>>,
                  this |-> Identifier(<<"s">>, FALSE)]>>

SqlPath(dir, stem) == [dir |-> SourceFolder \o dir, stem |-> stem, ext |-> "sql"]

SourcePaths ==
    {SqlPath(<<>>, "a"), SqlPath(<<"d">>, "b"), SqlPath(<<"d", "e">>, "c"),
     [dir |-> SourceFolder, stem |-> "notes", ext |-> "txt"]}

FolderQueries ==
    {Malformed,
     Query(SmallTables, SmallFunctionTree),
     Query(<<>>, BuildTree(1, <<0>>, <<[kind |-> "Anonymous", this |-> "GENERATE_ARRAY"]>>))}

RECURSIVE EntryLists(_)
EntryLists(k) ==
    IF k = 0 THEN {<<>>}
    ELSE LET shorter == EntryLists(k - 1)
         IN  shorter \cup
             {Append(l, [path |-> p, query |-> q]) :
                 l \in {m \in shorter : Len(m) = k - 1},
                 p \in SourcePaths, q \in FolderQueries}

DistinctPaths(l) == \A i, j \in DOMAIN l : l[i].path = l[j].path => i = j

InitRun ==
    /\ idx = 0
    /\ pc = "folder"
    /\ sql_query = Malformed
    /\ sql_parsed = NoTree
    /\ transpiled_query = <<>>
    /\ dest_files = {}
    /\ dest_dirs = {}

\* transpile_folder over a folder of up to MaxFiles entries
Init ==
    /\ source_entries \in {l \in EntryLists(MaxFiles) : DistinctPaths(l)}
    /\ source_dialect \in Dialects
    /\ InitRun

\* one file whose statement has one or two Table nodes
InitNormalize ==
    /\ source_entries \in
          {<<[path |-> SqlPath(<<>>, "a"), query |-> Query(t, SmallFunctionTree)]>> :
              t \in TableLists}
          \cup {<<[path |-> SqlPath(<<>>, "a"), query |-> Malformed]>>}
    /\ source_dialect \in Dialects
    /\ InitRun

\* one file whose statement has a function-call part of up to MaxNodes nodes
InitResolve ==
    /\ source_entries \in
          {<<[path |-> SqlPath(<<>>, "a"), query |-> Query(SmallTables, fn)]>> :
              fn \in {f \in FunctionTrees : WellFormed(f)}}
          \cup {<<[path |-> SqlPath(<<>>, "a"), query |-> Malformed]>>}
    /\ source_dialect \in Dialects
    /\ InitRun

Spec == Init /\ [][Next]_vars

SpecNormalize == InitNormalize /\ [][Next]_vars

SpecResolve == InitResolve /\ [][Next]_vars

\* ------------------------------------------------------------------------
\* Catalog normalization: properties
\* ------------------------------------------------------------------------
\* sql_parsed holds the tree after the loop over the Table nodes
AfterNormalize == pc \in {"normalized", "resolved", "returned"}

\* the Table nodes as parsed, before the loop
TablesBefore == sql_query.tree.tables

MarkerDot == catalog_to_remove \o Dot

\* `sub in s`
Contains(s, sub) ==
    \E i \in 1..(Len(s) + 1) : StartsWith(SubSeq(s, i, Len(s)), sub)

\* s[s.index(sub) + len(sub):] for a string that contains sub
RECURSIVE AfterFirst(_, _)
AfterFirst(s, sub) ==
    IF s = <<>> THEN <<>>
    ELSE IF StartsWith(s, sub) THEN SubSeq(s, Len(sub) + 1, Len(s))
    ELSE AfterFirst(Tail(s), sub)

\* number of (possibly overlapping) occurrences of sub in s
Occurrences(s, sub) ==
    Cardinality({i \in 1..Len(s) : StartsWith(SubSeq(s, i, Len(s)), sub)})

\* the name holds the marker once, as its leading 'physionet-data.'
OnlyLeadingMarker(name) ==
    /\ StartsWith(name, MarkerDot)
    /\ Occurrences(name, catalog_to_remove) = 1

\* C1 as stated: after the pass no Table node has a catalog or a name that
\* contains the marker.
C1_NoMarkerLeft ==
    AfterNormalize =>
        \A i \in DOMAIN sql_parsed.tables :
            /\ ~Contains(Text(sql_parsed.tables[i].catalog), catalog_to_remove)
            /\ ~Contains(sql_parsed.tables[i].this.this, catalog_to_remove)

\* C1 amended: after the pass no Table node has a catalog equal to the marker,
\* and a node whose catalog was not the marker and whose name held the marker
\* only as its leading 'physionet-data.' has a name without the marker.
C1_NoMarkerCatalog ==
    AfterNormalize =>
        \A i \in DOMAIN sql_parsed.tables :
            /\ Text(sql_parsed.tables[i].catalog) # catalog_to_remove
            /\ (/\ Text(TablesBefore[i].catalog) # catalog_to_remove
                /\ OnlyLeadingMarker(TablesBefore[i].this.this))
               => ~Contains(sql_parsed.tables[i].this.this, catalog_to_remove)

C1_Witness ==
    /\ AfterNormalize
    /\ Len(TablesBefore) = 2
    /\ Text(TablesBefore[1].catalog) # catalog_to_remove
    /\ OnlyLeadingMarker(TablesBefore[1].this.this)
    /\ Text(TablesBefore[2].catalog) = catalog_to_remove
    /\ sql_parsed.tables[1] # TablesBefore[1]
    /\ sql_parsed.tables[2] # TablesBefore[2]

\* C2 as stated: a Table node whose catalog is not the marker and whose name
\* does not start with 'physionet-data.' is left equal to the parsed node.
C2_OthersUntouched ==
    AfterNormalize =>
        \A i \in DOMAIN sql_parsed.tables :
            (/\ Text(TablesBefore[i].catalog) # catalog_to_remove
             /\ ~StartsWith(TablesBefore[i].this.this, MarkerDot))
            => sql_parsed.tables[i] = TablesBefore[i]

\* C3 as stated: a Table node whose catalog is not the marker and whose name
\* is 'physionet-data.<rest>' gets the unquoted name <rest>, the text after
\* the first 'physionet-data.'.
C3_RestAfterFirstMarker ==
    AfterNormalize =>
        \A i \in DOMAIN sql_parsed.tables :
            (/\ Text(TablesBefore[i].catalog) # catalog_to_remove
             /\ StartsWith(TablesBefore[i].this.this, MarkerDot))
            => sql_parsed.tables[i].this =
                  Identifier(AfterFirst(TablesBefore[i].this.this, MarkerDot), FALSE)

\* C4: a Table node whose catalog equals the marker loses the catalog and
\* keeps its schema and its name (text and quoted flag), also when the name
\* starts with the marker.
C4_CatalogCleared ==
    AfterNormalize =>
        \A i \in DOMAIN sql_parsed.tables :
            Text(TablesBefore[i].catalog) = catalog_to_remove
            => /\ sql_parsed.tables[i].catalog = <<>>
               /\ sql_parsed.tables[i].db = TablesBefore[i].db
               /\ sql_parsed.tables[i].this = TablesBefore[i].this

C4_Witness ==
    /\ AfterNormalize
    /\ \E i \in DOMAIN sql_parsed.tables :
          /\ Text(TablesBefore[i].catalog) = catalog_to_remove
          /\ StartsWith(TablesBefore[i].this.this, MarkerDot)
          /\ TablesBefore[i].this.quoted
          /\ TablesBefore[i].db # <<>>
          /\ sql_parsed.tables[i].catalog = <<>>

\* C5 as stated: a second pass over the normalized tree changes no Table node.
C5_Idempotent ==
    AfterNormalize =>
        \A i \in DOMAIN sql_parsed.tables :
            NormalizeTable(sql_parsed.tables[i]) = sql_parsed.tables[i]

\* C5 amended: a second pass changes no Table node whose parsed name does not
\* start with the marker, and none whose catalog is not the marker and whose
\* name contains the marker exactly once.
C5_IdempotentOnSingleMarker ==
    AfterNormalize =>
        \A i \in DOMAIN sql_parsed.tables :
            (\/ ~StartsWith(TablesBefore[i].this.this, catalog_to_remove)
             \/ /\ Text(TablesBefore[i].catalog) # catalog_to_remove
                /\ Occurrences(TablesBefore[i].this.this, catalog_to_remove) = 1)
            => NormalizeTable(sql_parsed.tables[i]) = sql_parsed.tables[i]

C5_Witness ==
    /\ AfterNormalize
    /\ \E i \in DOMAIN sql_parsed.tables :
          /\ Text(TablesBefore[i].catalog) # catalog_to_remove
          /\ StartsWith(TablesBefore[i].this.this, catalog_to_remove)
          /\ Occurrences(TablesBefore[i].this.this, catalog_to_remove) = 1
          /\ sql_parsed.tables[i] # TablesBefore[i]
          /\ NormalizeTable(sql_parsed.tables[i]) = sql_parsed.tables[i]

\* ------------------------------------------------------------------------
\* Function resolution: properties
\* ------------------------------------------------------------------------
\* sql_parsed holds the tree after the function-resolution step
AfterResolve == pc \in {"resolved", "returned"}

\* the function-call part as parsed
FnBefore == sql_query.tree

ArgsOf(tree, i) == tree.lists[tree.nodes[i].expressions]

KeyCall(i) ==
    /\ FnBefore.nodes[i].kind = "Anonymous"
    /\ FnBefore.nodes[i].this \in {"DATETIME", "GENERATE_ARRAY"}

Typed(name) == IF name = "DATETIME" THEN "DateTime" ELSE "GenerateArray"

\* pairs <<o, f>>: parsed node o and the node f that the resolved tree holds at
\* the same position (same argument indexes from the root down)
RECURSIVE PositionPairs(_, _)
PositionPairs(o, f) ==
    LET oa == ArgsOf(FnBefore, o)
        fa == ArgsOf(sql_parsed, f)
        both == {j \in DOMAIN oa : j \in DOMAIN fa}
    IN  {<<o, f>>} \cup UNION {PositionPairs(oa[j], fa[j]) : j \in both}

\* f's argument list is o's parsed argument list, element by element: the
\* same node, or for a DATETIME / GENERATE_ARRAY argument its typed node
SameArguments(o, f) ==
    LET oa == ArgsOf(FnBefore, o)
        fa == ArgsOf(sql_parsed, f)
    IN  /\ Len(fa) = Len(oa)
        /\ \A j \in DOMAIN oa :
              \/ fa[j] = oa[j]
              \/ /\ KeyCall(oa[j])
                 /\ fa[j] > Len(FnBefore.nodes)
                 /\ sql_parsed.nodes[fa[j]].kind = Typed(FnBefore.nodes[oa[j]].this)

\* C6 as stated: under 'bigquery' every Anonymous DATETIME / GENERATE_ARRAY
\* node is replaced at its position by the typed node with the same argument
\* list.
C6_KeyCallsReplacedInPlace ==
    (AfterResolve /\ source_dialect = "bigquery") =>
        LET pairs == PositionPairs(Root, Root)
        IN  /\ {p[1] : p \in pairs} = DOMAIN FnBefore.nodes
            /\ \A p \in pairs :
                  KeyCall(p[1]) =>
                     /\ sql_parsed.nodes[p[2]].kind = Typed(FnBefore.nodes[p[1]].this)
                     /\ SameArguments(p[1], p[2])

\* C7: for a dialect other than 'bigquery' the step leaves the tree as it was;
\* under 'bigquery' an Anonymous node whose callee name is not exactly
\* DATETIME or GENERATE_ARRAY is still that Anonymous node at its position,
\* with its name and its arguments.
C7_OnlyKeyCallsAltered ==
    AfterResolve =>
        /\ source_dialect # "bigquery" =>
              /\ sql_parsed.nodes = FnBefore.nodes
              /\ sql_parsed.lists = FnBefore.lists
        /\ \A o \in DOMAIN FnBefore.nodes :
              (FnBefore.nodes[o].kind = "Anonymous" /\ ~KeyCall(o)) =>
                 /\ <<o, o>> \in PositionPairs(Root, Root)
                 /\ sql_parsed.nodes[o].kind = "Anonymous"
                 /\ sql_parsed.nodes[o].this = FnBefore.nodes[o].this
                 /\ SameArguments(o, o)

C7_Witness ==
    /\ AfterResolve
    /\ source_dialect = "bigquery"
    /\ \E o \in DOMAIN FnBefore.nodes :
          /\ FnBefore.nodes[o].kind = "Anonymous"
          /\ FnBefore.nodes[o].this = "datetime"
          /\ FnBefore.nodes[o].parent # 0
          /\ KeyCall(FnBefore.nodes[o].parent)
          /\ ArgsOf(FnBefore, o) # <<>>
          /\ sql_parsed.nodes[o].kind = "Anonymous"
    /\ Len(sql_parsed.nodes) > Len(FnBefore.nodes)

\* C10 as stated: under 'bigquery', after the loop no Anonymous DATETIME /
\* GENERATE_ARRAY node is reachable from the tree that is rendered.
C10_NoKeyCallLeft ==
    (AfterResolve /\ source_dialect = "bigquery") =>
        \A i \in Reachable(sql_parsed) :
            ~(/\ sql_parsed.nodes[i].kind = "Anonymous"
              /\ sql_parsed.nodes[i].this \in {"DATETIME", "GENERATE_ARRAY"})

\* ------------------------------------------------------------------------
\* Files and folders: properties
\* ------------------------------------------------------------------------
Written == {f.path : f \in dest_files}

\* C8: when parsing of the text read fails, transpile_query has no tree and
\* no result, no pass and no render has run, and the destination file of that
\* input does not exist.
C8_ParseFailureNoOutput ==
    (pc \notin {"folder", "done"} /\ ~sql_query.ok) =>
        /\ pc \in {"read", "raised"}
        /\ sql_parsed = NoTree
        /\ transpiled_query = <<>>
        /\ DestinationFile(files[idx].path) \notin Written

C8_Witness ==
    /\ pc = "raised"
    /\ ~sql_query.ok
    /\ idx = 2
    /\ files[1].query.ok
    /\ Written = {DestinationFile(files[1].path)}

\* C9 as stated: when transpile_folder has ended, by returning or by the
\* exception, every discovered file that parses has its output at the mirrored
\* path under the destination folder.
C9_OtherFilesWritten ==
    pc \in {"done", "raised"} =>
        \A i \in DOMAIN files :
            files[i].query.ok => DestinationFile(files[i].path) \in Written

====
